---- MODULE Spec2Model ----
(***************************************************************************)
(* Model of scripts/openspec.py: the generator that turns Infoblox WAPI    *)
(* object schemas into one OpenAPI document per object group.              *)
(*                                                                         *)
(* Strings that the program takes apart (object types, field names,       *)
(* operations strings) are sequences of one-character strings; tokens the  *)
(* program only compares (vendor type names, group names, HTTP methods)    *)
(* are TLA+ strings.  Python dicts are functions; a key that a dict may or *)
(* may not hold is a key that is or is not in the function's DOMAIN.       *)
(* Free-text documentation (the "description" keys) is left out: no        *)
(* decision of the program reads it.                                       *)
(***************************************************************************)
EXTENDS Integers, Sequences, FiniteSets, TLC

VARIABLES
    config,           \* config.json: connection settings and output directory
    pc,               \* position of main() / generate_all(): see the actions
    cfg_groups,       \* config "object_groups": sequence of [name, objects]
    opt_group,        \* --group ("" when not given)
    opt_objects,      \* --objects (<<>> when not given)
    worklist,         \* batches generate_all still has to run: seq of [name, objects]
    cur,              \* the batch being run: [name, objects, processed]
    futures,          \* position -> future submitted for it:
                      \*   [st, exc, val, outcome, fetches]
    results,          \* process_objects_in_parallel: the dict position -> processed
                      \*   schema, as the sequence of its items [pos, val] in
                      \*   insertion order
    failed_objects,   \* self.failed_objects: object type -> failure record
    all_processed,    \* generate_all: all_processed_schemas
    docs,             \* output sink: group name -> written document
    group_filepaths,  \* generate_all: groups whose file was written, in order
    raised,           \* exception that left generate_all ("" when none)
    exit_code,        \* exit status of the process: "running", "0" or "1"
    fin,              \* field scenario: the raw field given to process_field
    fout,             \* field scenario: what process_field returned
    fpc,              \* field scenario: "raw" before the call, "processed" after,
                      \*   "converted" / "item" after the conversion,
                      \*   "emitted" after the emission of the property
    fprop,            \* field scenario: [of, def], the dict given to
                      \*   convert_field_type_to_openapi and the property it returned
    snake,            \* name scenario: the string given to to_pascal_case
    pascal,           \* name scenario: [name, schema_name], what to_pascal_case
                      \*   returned and the schema_name of a schema of that type
    dpc,              \* document scenario: "raw", "normalized", "emitted", then
                      \*   "again", "regenerated" or "child"
    din,              \* document scenario: the raw schemas, seq of [object_type, schema]
    dnorm,            \* document scenario: their processed schemas
    dout,             \* document scenario: result of generate_group_api
    dagain            \* document scenario: emitter state after a repeated expansion
                      \*   or a repeated generation

vars == <<config, pc, cfg_groups, opt_group, opt_objects, worklist, cur, futures, results,
          failed_objects, all_processed, docs, group_filepaths, raised,
          exit_code, fin, fout, fpc, fprop, snake, pascal, dpc, din, dnorm, dout, dagain>>

run_vars == <<config, pc, cfg_groups, opt_group, opt_objects, worklist, cur, futures, results,
              failed_objects, all_processed, docs, group_filepaths, raised,
              exit_code>>
field_vars == <<fin, fout, fpc, fprop>>
name_vars == <<snake, pascal>>
doc_vars == <<dpc, din, dnorm, dout, dagain>>

(***************************************************************************)
(* Bounds of the model.                                                    *)
(***************************************************************************)
MaxGroupLen == 2      \* longest object list of a configured group
MaxSupportsLen == 3   \* longest operations string given to process_field
MaxDocLen == 2        \* most schemas of one document in the document scenario
MaxNameLen == 3       \* longest enumerated string given to to_pascal_case

(***************************************************************************)
(* Characters and strings.                                                 *)
(***************************************************************************)
Lowers == <<"a","b","c","d","e","f","g","h","i","j","k","l","m",
            "n","o","p","q","r","s","t","u","v","w","x","y","z">>
Uppers == <<"A","B","C","D","E","F","G","H","I","J","K","L","M",
            "N","O","P","Q","R","S","T","U","V","W","X","Y","Z">>

IndexIn(c, s) == IF \E i \in DOMAIN s : s[i] = c
                 THEN CHOOSE i \in DOMAIN s : s[i] = c
                 ELSE 0

\* str.upper() / str.lower() on one character
UpperChar(c) == IF IndexIn(c, Lowers) > 0 THEN Uppers[IndexIn(c, Lowers)] ELSE c
LowerChar(c) == IF IndexIn(c, Uppers) > 0 THEN Lowers[IndexIn(c, Uppers)] ELSE c

\* str.capitalize(): first character upper-cased, the rest lower-cased
Capitalize(w) == [i \in DOMAIN w |-> IF i = 1 THEN UpperChar(w[i]) ELSE LowerChar(w[i])]

\* faulty variant: the colon is left in place
ReplaceColon_skipped(s) == s
\* str.replace(':', '_')
ReplaceColon(s) == [i \in DOMAIN s |-> IF s[i] = ":" THEN "_" ELSE s[i]]

\* str.split(sep): the words between the separators (empty words included)
RECURSIVE Split(_, _)
Split(s, sep) ==
    IF ~ \E i \in DOMAIN s : s[i] = sep
    THEN <<s>>
    ELSE LET i == CHOOSE k \in DOMAIN s : s[k] = sep /\ \A j \in 1..(k-1) : s[j] # sep
         IN  <<SubSeq(s, 1, i-1)>> \o Split(SubSeq(s, i+1, Len(s)), sep)

\* ''.join(words)
RECURSIVE Join(_)
Join(words) == IF words = <<>> THEN <<>> ELSE Head(words) \o Join(Tail(words))

\* in: the `x in s` test of Python on a string and a character
In(c, s) == \E i \in DOMAIN s : s[i] = c

(***************************************************************************)
(* Python values.                                                          *)
(***************************************************************************)
None == [kind |-> "None"]

Put(d, k, v) == [x \in DOMAIN d \cup {k} |-> IF x = k THEN v ELSE d[x]]
Del(d, k) == [x \in DOMAIN d \ {k} |-> d[x]]
EmptyDict == [x \in {} |-> None]

\* names the program spells out
S_ref == <<"_","r","e","f">>
S_extattrs == <<"e","x","t","a","t","t","r","s">>
S_network == <<"n","e","t","w","o","r","k">>

(***************************************************************************)
(* to_pascal_case (the list form of the argument is never used).           *)
(***************************************************************************)
MapSeq(Op(_), s) == [i \in DOMAIN s |-> Op(s[i])]

to_pascal_case(snake_str) ==
    IF snake_str = <<>>
    THEN <<>>
    ELSE Join(MapSeq(Capitalize, Split(ReplaceColon(snake_str), "_")))

(***************************************************************************)
(* Raw WAPI data.  A raw field is a record                                  *)
(*   [name, supports, type, is_array, required, searchable_by,             *)
(*    enum_values, schema]                                                  *)
(* where name (<<>> when empty or absent) and supports are character        *)
(* sequences, type is the list of vendor type tokens, searchable_by is the  *)
(* vendor's string ("" when absent), enum_values is a list (<<>> when       *)
(* absent) and schema is the nested raw schema:                            *)
(*   [kind |-> "none"]       no schema key, or an empty one                 *)
(*   [kind |-> "dict", fields |-> <<raw fields>>]                           *)
(*   [kind |-> "malformed"]  a non-empty value that is no JSON object       *)
(***************************************************************************)
NoSchema == [kind |-> "none"]
MalformedSchema == [kind |-> "malformed"]
NestedDict(fields) == [kind |-> "dict", fields |-> fields]

RawField(name, supports, type) ==
    [name |-> name, supports |-> supports, type |-> <<type>>, is_array |-> FALSE,
     required |-> FALSE, searchable_by |-> "", enum_values |-> <<>>, schema |-> NoSchema]

(***************************************************************************)
(* process_field                                                           *)
(***************************************************************************)
readonly_of(supports) == In("r", supports) /\ ~ In("w", supports)
writeonly_of(supports) == In("w", supports) /\ ~ In("r", supports)
\* faulty variant: the test for 'r' is missing
deleteonly_ignoring_read(supports) == In("d", supports) /\ ~ In("w", supports)
deleteonly_of(supports) ==
    In("d", supports) /\ ~ In("r", supports) /\ ~ In("w", supports)

process_field(field) ==
    IF field.name = <<>>
    THEN None
    ELSE LET field_types == IF field.type = <<>> THEN <<"string">> ELSE field.type
             original_type == field_types[1]
         IN  [kind |-> "field",
              name |-> field.name,
              type |-> IF field.is_array THEN "array" ELSE original_type,
              original_type |-> original_type,
              readonly |-> readonly_of(field.supports),
              writeonly |-> writeonly_of(field.supports),
              deleteonly |-> deleteonly_of(field.supports),
              supports_filtering |-> field.searchable_by # "",
              searchable_by |-> field.searchable_by,
              required |-> field.required,
              is_array |-> field.is_array,
              enum |-> field.enum_values,
              supports |-> field.supports,
              nested_schema |-> IF field.schema.kind = "none" THEN None ELSE field.schema,
              nested_schema_name |-> <<>>,
              parent_property |-> ""]

(***************************************************************************)
(* Configuration read by the transformation (config.json).                 *)
(***************************************************************************)
\* schema_options.pascal_case_schemas and schema_options.include_examples,
\* at their defaults
pascal_case_schemas == TRUE
include_examples == TRUE

\* self.object_to_group: a later group of the config overrides an earlier one
object_to_group(obj) ==
    LET holders == {i \in DOMAIN cfg_groups :
                      \E j \in DOMAIN cfg_groups[i].objects : cfg_groups[i].objects[j] = obj}
    IN  IF holders = {} THEN ""
        ELSE cfg_groups[CHOOSE i \in holders : \A k \in holders : k <= i].name

(***************************************************************************)
(* process_schema.  A raw schema document is                               *)
(*   [kind |-> "empty"]      an empty JSON document ({} or [])              *)
(*   [kind |-> "malformed"]  a non-empty JSON value that is no object       *)
(*   [kind |-> "dict", type, fields, restrictions]                          *)
(* with restrictions [form |-> "absent" | "list" | "dict", list |-> <<..>>].*)
(* The result is [exc, val]: exc names the exception raised ("" for none).  *)
(***************************************************************************)
Returned(v) == [exc |-> "", val |-> v]
Raised(e) == [exc |-> e, val |-> None]

\* faulty variant: the object form of the restrictions is not read
restrictions_of_bare_list(schema) ==
    IF schema.restrictions.form = "list" THEN schema.restrictions.list ELSE <<>>

restrictions_of(schema) ==
    IF schema.restrictions.form \in {"list", "dict"}
    THEN schema.restrictions.list
    ELSE <<>>

InList(x, l) == \E i \in DOMAIN l : l[i] = x

NameOf(f) == f.name

\* the names of the fields that satisfy Test, in input order
NamesWhere(Test(_), fields) == MapSeq(NameOf, SelectSeq(fields, Test))

\* "Track nested schemas": the processed field with its nested_schema_name
track_nested(pf, type_name) ==
    IF pf.kind = "field" /\ pf.nested_schema.kind # "None"
    THEN [pf EXCEPT !.nested_schema_name = to_pascal_case(type_name \o <<"_">> \o pf.name)]
    ELSE pf

\* processed_fields[field_name] = processed_field: the last field of a name wins
fields_by_name(tracked) ==
    [n \in {tracked[i].name : i \in DOMAIN tracked} |->
        tracked[CHOOSE i \in DOMAIN tracked :
                   /\ tracked[i].name = n
                   /\ \A k \in DOMAIN tracked : tracked[k].name = n => k <= i]]

\* the keys of processed_fields in the order the dict holds them
first_names(tracked) ==
    MapSeq(NameOf, SelectSeq(
        [i \in DOMAIN tracked |->
            [name |-> tracked[i].name,
             first |-> \A k \in 1..(i-1) : tracked[k].name # tracked[i].name]],
        LAMBDA e : e.first))

nested_refs(tracked) ==
    MapSeq(LAMBDA f : [name |-> f.nested_schema_name, schema |-> f.nested_schema,
                       field_name |-> f.name],
           SelectSeq(tracked, LAMBDA f : f.nested_schema.kind # "None"))

schema_name_of(type_name) ==
    IF pascal_case_schemas THEN to_pascal_case(type_name) ELSE ReplaceColon(type_name)

supports_create_of(restrictions) == ~ InList("create", restrictions)
supports_delete_of(restrictions) == ~ InList("delete", restrictions)
\* faulty variant: any field at all counts as writable
supports_modify_of_any_field(processed_fields) == DOMAIN processed_fields # {}

supports_modify_of(processed_fields) ==
    \E n \in DOMAIN processed_fields : In("w", processed_fields[n].supports)

group_of(object_type) ==
    IF Len(opt_objects) = 1 THEN "custom"
    ELSE IF object_to_group(object_type) = "" THEN "other"
    ELSE object_to_group(object_type)

\* the dict process_schema returns, from the processed fields in input order
build_schema(type_name, object_type, tracked, processed_fields, schema_name, restrictions) ==
    [kind |-> "schema",
     object_type |-> type_name,
     schema_name |-> schema_name,
     response_schema_name |-> <<"List">> \o schema_name \o <<"Response">>,
     fields |-> processed_fields,
     field_order |-> first_names(tracked),
     filtering_fields |-> NamesWhere(LAMBDA f : f.supports_filtering, tracked),
     required_fields |-> NamesWhere(LAMBDA f : f.required, tracked),
     nested_schemas |-> nested_refs(tracked),
     supports_create |-> supports_create_of(restrictions),
     supports_delete |-> supports_delete_of(restrictions),
     supports_modify |-> supports_modify_of(processed_fields),
     group |-> group_of(object_type),
     restrictions |-> restrictions]

\* the loop over raw_fields: processed_field["name"] raises TypeError on the
\* None that process_field returns for a field without a name
fields_loop(type_name, object_type, tracked, schema) ==
    IF \E i \in DOMAIN tracked : tracked[i].kind = "None"
    THEN Raised("TypeError")
    ELSE Returned(build_schema(type_name, object_type, tracked, fields_by_name(tracked),
                               schema_name_of(type_name), restrictions_of(schema)))

type_name_of(schema, object_type) ==
    IF schema.type = <<>> THEN object_type ELSE schema.type

process_fields(raw_fields, type_name) ==
    [i \in DOMAIN raw_fields |-> track_nested(process_field(raw_fields[i]), type_name)]

process_schema(schema, object_type) ==
    IF schema.kind = "empty" THEN Returned(None)
    ELSE IF schema.kind # "dict" THEN Raised("AttributeError")  \* schema.get
    ELSE fields_loop(type_name_of(schema, object_type), object_type,
                     process_fields(schema.fields, type_name_of(schema, object_type)),
                     schema)

(***************************************************************************)
(* convert_field_type_to_openapi                                           *)
(***************************************************************************)
type_mapping ==
    [string |-> "string", uint |-> "integer", int |-> "integer",
     integer |-> "integer", bool |-> "boolean", timestamp |-> "integer",
     enum |-> "string", extattr |-> "object"]

\* faulty variant: integer gets the format as well
format_mapping_with_integer ==
    [timestamp |-> "int64", uint |-> "int64", int |-> "int64", integer |-> "int64"]
format_mapping == [timestamp |-> "int64", uint |-> "int64", int |-> "int64"]

Get(d, k, default) == IF k \in DOMAIN d THEN d[k] ELSE default
PutIf(cond, d, k, v) == IF cond THEN Put(d, k, v) ELSE d

\* the dict built for the items of a plain array (parent_property is "" where
\* the caller passes none)
ItemDetails(original_type, parent_property) ==
    [kind |-> "field", name |-> <<>>, type |-> original_type,
     original_type |-> original_type, readonly |-> FALSE, writeonly |-> FALSE,
     enum |-> <<>>, parent_property |-> parent_property]

\* "Map common types": the default is string, an unmapped type is object unless
\* the caller marked the dict as the items of an array
openapi_type(field_type, parent_property) ==
    IF field_type \in DOMAIN type_mapping THEN type_mapping[field_type]
    ELSE IF parent_property = "is_array" THEN "string"
    ELSE "object"

\* "Add format for special types"
has_format(field_type) == field_type \in DOMAIN format_mapping

\* "add original type in enum"
has_type_enum(field_type, original_type) ==
    field_type \notin DOMAIN type_mapping /\ original_type # ""

\* faulty variant: the vendor type enum wins over the explicit enum values
add_enum_type_first(p, fd) ==
    PutIf(fd.enum # <<>> \/ has_type_enum(fd.type, fd.original_type), p, "enum",
          IF has_type_enum(fd.type, fd.original_type) THEN <<fd.original_type>>
          ELSE fd.enum)

add_enum(p, fd) ==
    PutIf(fd.enum # <<>> \/ has_type_enum(fd.type, fd.original_type), p, "enum",
          IF fd.enum # <<>> THEN fd.enum ELSE <<fd.original_type>>)

add_format(p, fd) ==
    PutIf(has_format(fd.type), p, "format",
          IF has_format(fd.type) THEN format_mapping[fd.type] ELSE "")

add_read_only(p, fd) == PutIf(fd.readonly, p, "readOnly", TRUE)
add_write_only(p, fd) == PutIf(fd.writeonly, p, "writeOnly", TRUE)

convert_field_type_to_openapi(field_details) ==
    add_write_only(
      add_read_only(
        add_enum(
          add_format([type |-> openapi_type(field_details.type,
                                            field_details.parent_property)],
                     field_details),
          field_details),
        field_details),
      field_details)

\* the "example" a property gets from its type
example_of(type, field_name) ==
    IF type = "string" THEN <<"Example ">> \o field_name
    ELSE IF type = "integer" THEN <<"1">>
    ELSE <<"False">>

with_example(property_def, field_name) ==
    PutIf(include_examples
            /\ Get(property_def, "type", "") \in {"string", "integer", "boolean"},
          property_def, "example",
          example_of(Get(property_def, "type", ""), field_name))

\* RefStr is the reference string, SchemaRef / ParamRef the dict {"$ref": ...}
RefStr(ns, name) == [ns |-> ns, name |-> name]
SchemaRef(name) == [k \in {"$ref"} |-> RefStr("schemas", name)]
ParamRef(name) == [k \in {"$ref"} |-> RefStr("parameters", <<name>>)]

\* property_def["items"] of a plain array, from the converted item dict
array_items(item_type) ==
    IF "enum" \in DOMAIN item_type
    THEN [type |-> item_type["type"], enum |-> item_type["enum"]]
    ELSE [type |-> item_type["type"]]

\* a plain array: type array, items from the element type
as_plain_array(property_def, original_type, parent_property) ==
    Put(Put(property_def, "type", "array"), "items",
        array_items(convert_field_type_to_openapi(
            ItemDetails(original_type, parent_property))))

(***************************************************************************)
(* The emitter's state: st = [sd, created, log, exc]                       *)
(*   sd       schemas_data, schema name -> schema object                    *)
(*   created  self.created_schemas                                          *)
(*   log      every schema the emitter generated for a key of sd, in order: *)
(*            [key, kind, of, body, skipped]; skipped is TRUE when the      *)
(*            de-duplication check dropped it (history, not program state)  *)
(*   exc      the exception raised so far ("" for none)                     *)
(***************************************************************************)
Logged(st, key, kind, of, body, skipped) ==
    [st EXCEPT !.log = Append(@, [key |-> key, kind |-> kind, of |-> of,
                                  body |-> body, skipped |-> skipped])]

(***************************************************************************)
(* process_nested_schema_fields                                            *)
(***************************************************************************)
RECURSIVE process_nested_schema_fields(_, _)
RECURSIVE nested_fields_loop(_, _, _, _)

child_name(schema_name, field_name) ==
    to_pascal_case(schema_name \o <<"_">> \o field_name)

\* the property of one field of a nested schema, from its converted definition
nested_property(converted, pf, nested_schema_name) ==
    IF pf.nested_schema.kind # "None" /\ pf.is_array
    THEN [type |-> "array", items |-> SchemaRef(nested_schema_name)]
    ELSE IF pf.nested_schema.kind # "None"
    THEN Put(converted, "$ref", RefStr("schemas", nested_schema_name))
    ELSE IF pf.is_array /\ pf.nested_schema_name # <<>>
    THEN Put(Put(converted, "type", "array"), "items", SchemaRef(pf.nested_schema_name))
    ELSE IF pf.is_array
    THEN as_plain_array(converted, pf.original_type, "")
    ELSE converted

\* faulty variant: the type stays beside the $ref
without_type_kept(property_def) == property_def
\* "remove type if we have $ref"
without_type_beside_ref(property_def) ==
    IF "$ref" \in DOMAIN property_def THEN Del(property_def, "type") ELSE property_def

\* the property definition of one field of the nested schema schema_name
nested_definition(schema_name, pf) ==
    without_type_beside_ref(
      nested_property(
        with_example(convert_field_type_to_openapi(pf), pf.name),
        pf, child_name(schema_name, pf.name)))

\* schemas_data[schema_name]["properties"][field_name] = property_def
store_property(schema_name, pf, st) ==
    IF st.exc # "" THEN st
    ELSE [st EXCEPT !.sd[schema_name]["properties"] =
             Put(@, pf.name, nested_definition(schema_name, pf))]

\* "Process this nested schema too"
expand_child(schema_name, pf, st) ==
    IF pf.nested_schema.kind # "None"
    THEN process_nested_schema_fields(
             [name |-> child_name(schema_name, pf.name),
              schema |-> pf.nested_schema,
              field_name |-> pf.name], st)
    ELSE st

nested_field(schema_name, pf, st) ==
    IF pf.kind = "None" THEN st
    ELSE store_property(schema_name, pf, expand_child(schema_name, pf, st))

\* the body of `for field in fields`, from field i on
nested_fields_loop(schema_name, fields, i, st) ==
    IF i > Len(fields) \/ st.exc # "" THEN st
    ELSE nested_fields_loop(schema_name, fields, i + 1,
                            nested_field(schema_name, process_field(fields[i]), st))

\* faulty variant: the de-duplication check never fires
never_processed(schema_name, created) == FALSE

\* "Skip if already processed"
already_processed(schema_name, created) == schema_name \in created

\* created_schemas.add and the pre-allocated schema object
preallocate(nested_schema, st) ==
    Logged([st EXCEPT !.created = @ \cup {nested_schema.name},
                      !.sd = Put(@, nested_schema.name,
                                 [type |-> "object", properties |-> EmptyDict])],
           nested_schema.name, "nested", nested_schema.field_name,
           nested_schema.schema, FALSE)

\* schema_data.get("fields", []) and the loop over them
nested_fields_of(nested_schema, st) ==
    IF nested_schema.schema.kind # "dict"
    THEN [st EXCEPT !.exc = "AttributeError"]
    ELSE nested_fields_loop(nested_schema.name, nested_schema.schema.fields, 1, st)

process_nested_schema_fields(nested_schema, st) ==
    IF already_processed(nested_schema.name, st.created)
    THEN Logged(st, nested_schema.name, "nested", nested_schema.field_name,
                nested_schema.schema, TRUE)
    ELSE nested_fields_of(nested_schema, preallocate(nested_schema, st))

(***************************************************************************)
(* generate_schemas_for_objects                                            *)
(***************************************************************************)
\* config "func_callbacks": object type -> callback-capable field names
func_call_fields(object_type) ==
    IF object_type = <<"a">> THEN {S_network, <<"e">>} ELSE {}

callback_properties ==
    [_object_function |-> [type |-> "string"],
     _parameters |-> [type |-> "object"],
     _result_field |-> [type |-> "string"],
     _object |-> [type |-> "string"],
     _object_parameters |-> [type |-> "object"]]

callback_branches(field_name) ==
    <<[type |-> "string"],
      [type |-> "object",
       properties |-> PutIf(field_name = S_network, callback_properties,
                            "_object_ref", [type |-> "string"])]>>

\* extattrs and callback fields
special_property(converted, object_type, field_name) ==
    IF field_name = S_extattrs
    THEN Put(converted, "additionalProperties", SchemaRef(<<"ExtAttrs">>))
    ELSE IF field_name \in func_call_fields(object_type)
    THEN Put(Del(converted, "type"), "oneOf", callback_branches(field_name))
    ELSE converted

\* "Handle nested schema" / "Handle regular arrays"
structured_property(special, field_details) ==
    IF field_details.nested_schema_name # <<>>
    THEN IF field_details.is_array
         THEN Put(Put(special, "type", "array"),
                  "items", SchemaRef(field_details.nested_schema_name))
         ELSE SchemaRef(field_details.nested_schema_name)
    ELSE IF field_details.is_array
    THEN as_plain_array(special, field_details.original_type, "is_array")
    ELSE special

\* the property definition of one field of a primary schema
primary_property(object_type, field_name, field_details) ==
    with_example(
      structured_property(
        special_property(convert_field_type_to_openapi(field_details),
                         object_type, field_name),
        field_details),
      field_name)

primary_schema(schema) ==
    PutIf(schema.required_fields # <<>>,
          [type |-> "object", additionalProperties |-> FALSE,
           properties |-> [n \in DOMAIN schema.fields \cup {S_ref} |->
                             IF n = S_ref THEN [type |-> "string"]
                             ELSE primary_property(schema.object_type, n,
                                                   schema.fields[n])]],
          "required", schema.required_fields)

RECURSIVE nested_schemas_loop(_, _, _)
nested_schemas_loop(nested_schemas, i, st) ==
    IF i > Len(nested_schemas) \/ st.exc # "" THEN st
    ELSE nested_schemas_loop(nested_schemas, i + 1,
                             process_nested_schema_fields(nested_schemas[i], st))

list_response(schema_name) ==
    [oneOf |-> <<[type |-> "array", items |-> SchemaRef(schema_name)],
                 [type |-> "object",
                  properties |-> [result |-> [type |-> "array",
                                              items |-> SchemaRef(schema_name)]]]>>]

result_or_string(schema_name) ==
    [oneOf |-> <<[type |-> "object",
                  properties |-> [result |-> SchemaRef(schema_name)]],
                 [type |-> "string"]>>]

get_response(schema_name) ==
    [oneOf |-> <<SchemaRef(schema_name),
                 [type |-> "object", additionalProperties |-> FALSE,
                  properties |-> [result |-> SchemaRef(schema_name)]]>>]

ResponseName(prefix, schema_name) == <<prefix>> \o schema_name \o <<"Response">>

\* faulty variant: the Create response schema is left out
emits_create_never(schema) == FALSE
\* whether the Create / Update response schema of a schema is emitted
emits_create_response(schema) == schema.supports_create
emits_update_response(schema) == TRUE

\* schemas_data[key] = value
Emit(cond, st, key, kind, of, value) ==
    IF st.exc # "" \/ ~ cond THEN st
    ELSE Logged([st EXCEPT !.sd = Put(@, key, value)], key, kind, of, NoSchema, FALSE)

emit_primary(schema, st) ==
    Emit(TRUE, st, schema.schema_name, "primary", schema.object_type,
         primary_schema(schema))
emit_nested(schema, st) == nested_schemas_loop(schema.nested_schemas, 1, st)
emit_list(schema, st) ==
    Emit(TRUE, st, schema.response_schema_name, "List", schema.object_type,
         list_response(schema.schema_name))
emit_create(schema, st) ==
    Emit(emits_create_response(schema), st, ResponseName("Create", schema.schema_name),
         "Create", schema.object_type, result_or_string(schema.schema_name))
emit_get(schema, st) ==
    Emit(TRUE, st, ResponseName("Get", schema.schema_name), "Get", schema.object_type,
         get_response(schema.schema_name))
emit_update(schema, st) ==
    Emit(emits_update_response(schema), st, ResponseName("Update", schema.schema_name),
         "Update", schema.object_type, result_or_string(schema.schema_name))

\* the body of `for schema in schemas` for one schema
emit_one_schema(schema, st) ==
    emit_update(schema,
      emit_get(schema,
        emit_create(schema,
          emit_list(schema,
            emit_nested(schema,
              emit_primary(schema, st))))))

RECURSIVE schemas_loop(_, _, _)
schemas_loop(schemas, i, st) ==
    IF i > Len(schemas) \/ st.exc # "" THEN st
    ELSE schemas_loop(schemas, i + 1, emit_one_schema(schemas[i], st))

ExtAttrs == [type |-> "object", properties |-> [value |-> EmptyDict],
             required |-> <<"value">>]

\* faulty variant: the set is not reset
reset_created_kept(created) == created
\* "Reset created schemas tracking": self.created_schemas = set()
reset_created(created) == {}

\* the emitter's state after the reset and ExtAttrs, `created` being what
\* self.created_schemas held when generate_schemas_for_objects was called
emitter_reset(created) ==
    Emit(TRUE, [sd |-> EmptyDict, created |-> reset_created(created),
                log |-> <<>>, exc |-> ""],
         <<"ExtAttrs">>, "ExtAttrs", <<>>, ExtAttrs)

\* on a generator whose set is as __init__ left it
emitter_start == emitter_reset({})

generate_schemas_for_objects(schemas) == schemas_loop(schemas, 1, emitter_start)

\* a later call on the same generator
generate_schemas_again(schemas, created) ==
    schemas_loop(schemas, 1, emitter_reset(created))

(***************************************************************************)
(* generate_group_api: tags, components and paths of one group's document. *)
(* Writing the file is the output sink's part and is taken to succeed.      *)
(***************************************************************************)
common_parameters ==
    {<<"ReturnFields">>, <<"ReturnFieldsPlus">>, <<"MaxResults">>, <<"ReturnAsObject">>,
     <<"Paging">>, <<"PageId">>, <<"ProxySearch">>, <<"Schema">>, <<"SchemaVersion">>,
     <<"GetDoc">>, <<"SchemaSearchable">>, <<"Inheritance">>}

collection_path(object_type) == <<"/">> \o object_type
item_path(object_type) == <<"/">> \o object_type \o <<"/", "{reference}">>

QueryParam(name, type) ==
    [name |-> name, in |-> "query", required |-> FALSE, schema |-> [type |-> type]]
ReferenceParam ==
    [name |-> <<"reference">>, in |-> "path", required |-> TRUE,
     schema |-> [type |-> "string"]]

\* f"{self.to_pascal_case(object_type)}<action>"
operation_id(object_type, action) == to_pascal_case(object_type) \o <<action>>

Operation(object_type, action, parameters, request, response) ==
    [operationId |-> operation_id(object_type, action),
     parameters |-> parameters, requestBody |-> request, response |-> response]

\* the query parameter of a field, typed by the conversion of the field
field_parameter(schema, n) ==
    QueryParam(n, Get(convert_field_type_to_openapi(schema.fields[n]), "type", "string"))

filter_parameters(schema) ==
    [i \in DOMAIN schema.filtering_fields |->
        field_parameter(schema, schema.filtering_fields[i])]

delete_parameters(schema) ==
    SelectSeq([i \in DOMAIN schema.field_order |->
                 field_parameter(schema, schema.field_order[i])],
              LAMBDA q : schema.fields[q.name].deleteonly)

\* which operations a schema gets
\* faulty variant: the condition is inverted
has_post_inverted(schema) == ~ schema.supports_create
has_post(schema) == schema.supports_create
\* faulty variant: PUT gated on the capability that gates POST
has_put_as_post(schema) == schema.supports_create
has_put(schema) == schema.supports_modify
has_delete(schema) == schema.supports_delete

list_operation(schema) ==
    Operation(schema.object_type, "List",
        <<ParamRef("ReturnFields"), ParamRef("ReturnFieldsPlus"),
          ParamRef("MaxResults"), ParamRef("ReturnAsObject"),
          ParamRef("Paging"), ParamRef("PageId"), ParamRef("ProxySearch"),
          ParamRef("Schema"), ParamRef("SchemaVersion"), ParamRef("GetDoc"),
          ParamRef("SchemaSearchable"), ParamRef("Inheritance")>>
        \o filter_parameters(schema),
        EmptyDict, SchemaRef(schema.response_schema_name))

create_operation(schema) ==
    Operation(schema.object_type, "Create",
        <<ParamRef("ReturnFields"), ParamRef("ReturnFieldsPlus"),
          ParamRef("ReturnAsObject"), ParamRef("Inheritance")>>,
        SchemaRef(schema.schema_name),
        SchemaRef(ResponseName("Create", schema.schema_name)))

read_operation(schema) ==
    Operation(schema.object_type, "Read",
        <<ReferenceParam, ParamRef("ReturnFields"), ParamRef("ReturnFieldsPlus"),
          ParamRef("ReturnAsObject"), ParamRef("Inheritance")>>,
        EmptyDict, SchemaRef(ResponseName("Get", schema.schema_name)))

update_operation(schema) ==
    Operation(schema.object_type, "Update",
        <<ReferenceParam, ParamRef("ReturnFields"), ParamRef("ReturnFieldsPlus"),
          ParamRef("ReturnAsObject")>>,
        SchemaRef(schema.schema_name),
        SchemaRef(ResponseName("Update", schema.schema_name)))

delete_operation(schema) ==
    Operation(schema.object_type, "Delete",
        <<ReferenceParam>> \o delete_parameters(schema), EmptyDict, EmptyDict)

collection_item(schema) ==
    PutIf(has_post(schema), [get |-> list_operation(schema)],
          "post", create_operation(schema))

reference_item(schema) ==
    PutIf(has_delete(schema),
          PutIf(has_put(schema), [get |-> read_operation(schema)],
                "put", update_operation(schema)),
          "delete", delete_operation(schema))

RECURSIVE paths_loop(_, _, _)
paths_loop(schemas, i, paths) ==
    IF i > Len(schemas) THEN paths
    ELSE paths_loop(schemas, i + 1,
             Put(Put(paths, collection_path(schemas[i].object_type),
                     collection_item(schemas[i])),
                 item_path(schemas[i].object_type), reference_item(schemas[i])))

\* one tag per object type, in order of first appearance
tags_of(schemas) ==
    MapSeq(LAMBDA e : to_pascal_case(e.ot),
           SelectSeq([i \in DOMAIN schemas |->
                        [ot |-> schemas[i].object_type,
                         first |-> \A k \in 1..(i-1) :
                                     schemas[k].object_type # schemas[i].object_type]],
                     LAMBDA e : e.first))

\* the document, from the emitter's final state
document(group, schemas, st) ==
    IF st.exc # "" THEN Raised(st.exc)
    ELSE Returned([kind |-> "document",
                   group |-> group,
                   tags |-> tags_of(schemas),
                   parameters |-> common_parameters,
                   schemas |-> st.sd,
                   log |-> st.log,
                   created |-> st.created,
                   paths |-> paths_loop(schemas, 1, EmptyDict)])

\* [exc, val]: val is the document handed to the output sink; an exception of
\* the schema emitter leaves the function before any file is opened
generate_group_api(group, schemas) ==
    document(group, schemas, generate_schemas_for_objects(schemas))

(***************************************************************************)
(* The WAPI server of the model: object types and the schema documents it   *)
(* answers with.                                                            *)
(***************************************************************************)
RW == <<"r", "w">>

F_noname == RawField(<<>>, RW, "string")
F_e == RawField(<<"e">>, RW, "string")
F_c_uint == RawField(<<"c">>, <<"r">>, "uint")
F_d_inner == [RawField(<<"d">>, RW, "inner") EXCEPT
                 !.is_array = TRUE, !.schema = NestedDict(<<F_e>>)]
F_b_struct == [RawField(<<"b">>, RW, "struct") EXCEPT
                 !.schema = NestedDict(<<F_noname, F_c_uint, F_d_inner>>)]
F_network == [RawField(S_network, RW, "string") EXCEPT
                 !.required = TRUE, !.searchable_by = "=:~"]
F_c_search == [RawField(<<"c">>, <<"r">>, "string") EXCEPT !.searchable_by = "="]
F_d_delete == RawField(<<"d">>, <<"d">>, "bool")
F_extattrs == RawField(S_extattrs, RW, "extattr")
F_c_array == [RawField(<<"c">>, <<"r">>, "struct") EXCEPT !.is_array = TRUE]
F_e_enum == [RawField(<<"e">>, <<"w">>, "enum") EXCEPT
                 !.enum_values = <<"A", "B">>, !.required = TRUE]
F_s_malformed == [RawField(<<"s">>, RW, "struct") EXCEPT !.schema = MalformedSchema]

\* a struct whose nested schema has again a field b of type struct: vendor data
\* that refers back to the enclosing schema, as far as a JSON document can
F_b_inner == [RawField(<<"b">>, RW, "struct") EXCEPT !.schema = NestedDict(<<F_e>>)]
F_b_back == [RawField(<<"b">>, RW, "struct") EXCEPT
                !.schema = NestedDict(<<F_e, F_b_inner>>)]

FieldLists ==
    {<<F_b_struct, F_network>>,
     <<F_c_search, F_d_delete>>,
     <<F_extattrs, F_c_array, F_e_enum>>}

Restrictions ==
    {[form |-> "absent", list |-> <<>>],
     [form |-> "list", list |-> <<"create">>],
     [form |-> "dict", list |-> <<"delete">>],
     [form |-> "list", list |-> <<"delete", "create">>]}

RawSchema(type, fields, restrictions) ==
    [kind |-> "dict", type |-> type, fields |-> fields, restrictions |-> restrictions]

O_a == <<"a">>
O_ab == <<"a", ":", "b">>
O_b == <<"b">>
O_c == <<"c">>
ObjTypes == {O_a, O_ab, O_b, O_c}

Absent == [form |-> "absent", list |-> <<>>]

\* the object type record:a: name (string, rw, required), ipv4addr (string, rw)
O_record_a == <<"r", "e", "c", "o", "r", "d", ":", "a">>
S_name == <<"n", "a", "m", "e">>
S_ipv4addr == <<"i", "p", "v", "4", "a", "d", "d", "r">>
RecordAFields ==
    <<[RawField(S_name, RW, "string") EXCEPT !.required = TRUE],
      RawField(S_ipv4addr, RW, "string")>>

WapiSchema(obj) ==
    IF obj = O_record_a THEN RawSchema(obj, RecordAFields, Absent)
    ELSE IF obj = O_a THEN RawSchema(obj, <<F_b_struct, F_network>>, Absent)
    ELSE IF obj = O_ab
    THEN RawSchema(obj, <<F_c_search, F_d_delete>>, [form |-> "list", list |-> <<"create">>])
    ELSE IF obj = O_b THEN RawSchema(obj, <<F_noname, F_e>>, Absent)
    ELSE RawSchema(obj, <<F_s_malformed>>, Absent)

StatusCodes == {"404", "500"}

\* sequences over S without repetition, of length lo..hi
DistinctSeqs(S, lo, hi) ==
    UNION {{q \in [1..n -> S] : \A i, j \in 1..n : i # j => q[i] # q[j]} : n \in lo..hi}

(***************************************************************************)
(* The run: main() -> generate_all() -> per batch                           *)
(* process_objects_in_parallel() and generate_group_api().                  *)
(***************************************************************************)
NoBatch == [name |-> "", objects |-> <<>>, processed |-> <<>>]

FieldIdle == /\ fin = None /\ fout = None /\ fpc = "off" /\ fprop = None
NameIdle == /\ snake = <<>> /\ pascal = None
DocIdle == /\ dpc = "off" /\ din = <<>> /\ dnorm = <<>> /\ dout = None /\ dagain = None
\* a configuration with every setting present
CompleteConfig ==
    [hostname |-> "set", username |-> "set", password |-> "set",
     wapi_version |-> "set", directory |-> "out"]

RunIdle ==
    /\ config = CompleteConfig
    /\ pc = "off" /\ cfg_groups = <<>> /\ opt_group = "" /\ opt_objects = <<>>
    /\ worklist = <<>> /\ cur = NoBatch /\ futures = <<>> /\ results = <<>>
    /\ failed_objects = EmptyDict /\ all_processed = <<>> /\ docs = EmptyDict
    /\ group_filepaths = <<>> /\ raised = "" /\ exit_code = "running"

\* the command lines of the model: nothing, --group, --objects
Options ==
    {[group |-> "", objects |-> <<>>], [group |-> "dhcp", objects |-> <<>>]}
    \cup {[group |-> "", objects |-> o] : o \in DistinctSeqs({O_a, O_c}, 1, 2)}

\* the state after OpenAPIGenerator(config) and set_options(...)
Init ==
    /\ config = CompleteConfig
    /\ pc = "start"
    /\ \E l1 \in DistinctSeqs(ObjTypes, 1, MaxGroupLen), l2 \in DistinctSeqs(ObjTypes, 0, 1) :
         cfg_groups = <<[name |-> "dns", objects |-> l1], [name |-> "dhcp", objects |-> l2]>>
    /\ \E o \in Options : opt_group = o.group /\ opt_objects = o.objects
    /\ worklist = <<>>
    /\ cur = NoBatch
    /\ futures = <<>>
    /\ results = <<>>
    /\ failed_objects = EmptyDict
    /\ all_processed = <<>>
    /\ docs = EmptyDict
    /\ group_filepaths = <<>>
    /\ raised = ""
    /\ exit_code = "running"
    /\ FieldIdle
    /\ DocIdle
    /\ NameIdle

\* generate_all, --objects given: the objects by group, groups in order of
\* first appearance
\* self.object_to_group.get(obj, "custom")
batch_group(obj) == IF object_to_group(obj) = "" THEN "custom" ELSE object_to_group(obj)

objects_by_group(objects) ==
    MapSeq(LAMBDA e : [name |-> e.g,
                       objects |-> SelectSeq(objects, LAMBDA o : batch_group(o) = e.g)],
           SelectSeq([i \in DOMAIN objects |->
                        [g |-> batch_group(objects[i]),
                         first |-> \A k \in 1..(i-1) :
                                     batch_group(objects[k]) # batch_group(objects[i])]],
                     LAMBDA e : e.first))

\* the batches generate_all runs, in order
batches ==
    IF opt_objects # <<>> THEN objects_by_group(opt_objects)
    ELSE IF opt_group # "" /\ \E i \in DOMAIN cfg_groups : cfg_groups[i].name = opt_group
    THEN SelectSeq(cfg_groups, LAMBDA g : g.name = opt_group)
    ELSE cfg_groups

GenerateAll ==
    /\ pc = "start"
    /\ worklist' = batches
    /\ pc' = "next"
    /\ UNCHANGED <<cfg_groups, opt_group, opt_objects, cur, futures, results,
                   failed_objects, all_processed, docs, group_filepaths, raised,
                   exit_code>>
    /\ UNCHANGED <<field_vars, doc_vars, name_vars, config>>

\* process_objects_in_parallel: every object of the next batch is submitted
Submit ==
    /\ pc = "next"
    /\ worklist # <<>>
    /\ cur' = [name |-> Head(worklist).name, objects |-> Head(worklist).objects,
               processed |-> <<>>]
    /\ worklist' = Tail(worklist)
    /\ futures' = [i \in DOMAIN Head(worklist).objects |->
                     [st |-> "pending", exc |-> "", val |-> None,
                      outcome |-> "", fetches |-> 0]]
    /\ results' = <<>>
    /\ pc' = "batch"
    /\ UNCHANGED <<cfg_groups, opt_group, opt_objects, failed_objects, all_processed,
                   docs, group_filepaths, raised, exit_code>>
    /\ UNCHANGED <<field_vars, doc_vars, name_vars, config>>

\* faulty variant: the classification of the failure is lost
FailureRecord_unclassified(status_code, message, obj) ==
    [kind |-> "failure", status_code |-> "Exception", message |-> message, url |-> obj]

FailureRecord(status_code, message, obj) ==
    [kind |-> "failure", status_code |-> status_code, message |-> message, url |-> obj]

\* a write to self.failed_objects: the record stored, with the thread that
\* stores it and whether that thread holds `lock` at the assignment (history,
\* not program state). `lock` is a local of process_objects_in_parallel: the
\* collector loop takes it, fetch_schema and process_object cannot.
StoredBy(thread, lock_held, record) ==
    [kind |-> record.kind, status_code |-> record.status_code,
     message |-> record.message, url |-> record.url,
     writer |-> thread, lock_held |-> lock_held]

\* faulty variant: a fetch that answered an error status is made once more
may_fetch_again(f) ==
    f.st = "pending" \/ (f.st = "done" /\ f.outcome = "http" /\ f.fetches < 2)
\* the one requests.get of fetch_schema, in the one process_object call
\* submitted for the list entry: it is not repeated, whatever it answers
may_fetch(f) == f.st = "pending"

\* a worker thread runs process_object for position i; `outcome` is what
\* requests.get / response.json() did
Worker(i, outcome, done, failure) ==
    /\ pc = "batch"
    /\ i \in DOMAIN futures
    /\ may_fetch(futures[i])
    /\ futures' = [futures EXCEPT ![i] =
                      [st |-> "done", exc |-> done.exc, val |-> done.val,
                       outcome |-> outcome, fetches |-> futures[i].fetches + 1]]
    /\ failed_objects' = IF failure.kind = "None" THEN failed_objects
                         ELSE Put(failed_objects, cur.objects[i],
                                  StoredBy("worker", FALSE, failure))
    /\ UNCHANGED <<pc, cfg_groups, opt_group, opt_objects, worklist, cur, results,
                   all_processed, docs, group_filepaths, raised, exit_code>>
    /\ UNCHANGED <<field_vars, doc_vars, name_vars, config>>

\* 200 with the schema document: process_schema runs on it
FetchOk(i) ==
    /\ i \in DOMAIN cur.objects
    /\ Worker(i, "ok",
              process_schema(WapiSchema(cur.objects[i]), cur.objects[i]), None)

\* 200 with an empty JSON document: `if not raw_schema` returns None
FetchEmpty(i) ==
    /\ i \in DOMAIN cur.objects
    /\ Worker(i, "empty", Returned(None), None)

FetchHttpError(i) ==
    /\ i \in DOMAIN cur.objects
    /\ \E code \in StatusCodes :
         Worker(i, "http", Returned(None),
                FailureRecord(code, "response text", cur.objects[i]))

\* requests.exceptions.RequestException (connection errors, timeouts)
FetchNetworkError(i) ==
    /\ i \in DOMAIN cur.objects
    /\ Worker(i, "network", Returned(None),
              FailureRecord("Network Error", "str(e)", cur.objects[i]))

\* response.json() fails: requests raises its own JSONDecodeError, which is a
\* RequestException in recent releases and a plain ValueError in older ones
FetchDecodeError(i) ==
    /\ i \in DOMAIN cur.objects
    /\ \E status \in {"Network Error", "Data Processing Error"} :
         Worker(i, "decode", Returned(None),
                FailureRecord(status, "str(e)", cur.objects[i]))

CaughtByCollector == {"ValueError", "TypeError", "KeyError", "AttributeError"}

\* the body of `for future in as_completed(...)` for the future of position i
Collect(i) ==
    /\ pc = "batch"
    /\ i \in DOMAIN futures
    /\ futures[i].st = "done"
    /\ futures[i].exc \in CaughtByCollector \cup {""}
    /\ futures' = [futures EXCEPT ![i].st = "collected"]
    /\ results' = IF futures[i].exc = "" /\ futures[i].val.kind = "schema"
                  THEN Append(results, [pos |-> i, val |-> futures[i].val])
                  ELSE results
    /\ failed_objects' =
         IF futures[i].exc # "" /\ cur.objects[i] \notin DOMAIN failed_objects
         THEN Put(failed_objects, cur.objects[i],
                  StoredBy("coordinator", TRUE,
                           FailureRecord("Exception", futures[i].exc, cur.objects[i])))
         ELSE failed_objects
    /\ UNCHANGED <<pc, cfg_groups, opt_group, opt_objects, worklist, cur,
                   all_processed, docs, group_filepaths, raised, exit_code>>
    /\ UNCHANGED <<field_vars, doc_vars, name_vars, config>>

\* faulty variant: the results in the order the dict received them
ordered_results_by_completion(objects, res) == MapSeq(LAMBDA e : e.val, res)

\* "Reconstruct the result list in the original order"
ordered_results(objects, res) ==
    MapSeq(LAMBDA i : res[CHOOSE k \in DOMAIN res : res[k].pos = i].val,
           SelectSeq([i \in DOMAIN objects |-> i],
                     LAMBDA i : \E k \in DOMAIN res : res[k].pos = i))

\* process_objects_in_parallel returns
ReturnBatch ==
    /\ pc = "batch"
    /\ \A i \in DOMAIN futures : futures[i].st = "collected"
    /\ cur' = [cur EXCEPT !.processed = ordered_results(cur.objects, results)]
    /\ all_processed' = all_processed \o ordered_results(cur.objects, results)
    /\ pc' = "generate"
    /\ UNCHANGED <<cfg_groups, opt_group, opt_objects, worklist, futures, results,
                   failed_objects, docs, group_filepaths, raised, exit_code>>
    /\ UNCHANGED <<field_vars, doc_vars, name_vars, config>>

\* `if processed_objs:` is false: no file for this group
SkipGroup ==
    /\ pc = "generate"
    /\ cur.processed = <<>>
    /\ pc' = "next"
    /\ UNCHANGED <<cfg_groups, opt_group, opt_objects, worklist, cur, futures, results,
                   failed_objects, all_processed, docs, group_filepaths, raised,
                   exit_code>>
    /\ UNCHANGED <<field_vars, doc_vars, name_vars, config>>

\* generate_group_api writes the group's file
WriteGroup ==
    /\ pc = "generate"
    /\ cur.processed # <<>>
    /\ LET r == generate_group_api(cur.name, cur.processed)
       IN  /\ r.exc = ""
           /\ docs' = Put(docs, cur.name, r.val)
           /\ group_filepaths' = IF InList(cur.name, group_filepaths) THEN group_filepaths
                                 ELSE Append(group_filepaths, cur.name)
    /\ pc' = "next"
    /\ UNCHANGED <<cfg_groups, opt_group, opt_objects, worklist, cur, futures, results,
                   failed_objects, all_processed, raised, exit_code>>
    /\ UNCHANGED <<field_vars, doc_vars, name_vars, config>>

\* generate_group_api raises: the exception leaves generate_all
RaiseInGroup ==
    /\ pc = "generate"
    /\ cur.processed # <<>>
    /\ LET r == generate_group_api(cur.name, cur.processed)
       IN  /\ r.exc # ""
           /\ raised' = r.exc
    /\ pc' = "raised"
    /\ UNCHANGED <<cfg_groups, opt_group, opt_objects, worklist, cur, futures, results,
                   failed_objects, all_processed, docs, group_filepaths, exit_code>>
    /\ UNCHANGED <<field_vars, doc_vars, name_vars, config>>

\* generate_all returned: main returns 1 when no file was generated, else 0
ExitNormal ==
    /\ pc = "next"
    /\ worklist = <<>>
    /\ exit_code' = IF group_filepaths = <<>> THEN "1" ELSE "0"
    /\ pc' = "exit"
    /\ UNCHANGED <<cfg_groups, opt_group, opt_objects, worklist, cur, futures, results,
                   failed_objects, all_processed, docs, group_filepaths, raised>>
    /\ UNCHANGED <<field_vars, doc_vars, name_vars, config>>

\* an exception left generate_all: main's except clause returns 1, and an
\* exception it does not name ends the interpreter with status 1 as well
ExitRaised ==
    /\ pc = "raised"
    /\ exit_code' = "1"
    /\ pc' = "exit"
    /\ UNCHANGED <<cfg_groups, opt_group, opt_objects, worklist, cur, futures, results,
                   failed_objects, all_processed, docs, group_filepaths, raised>>
    /\ UNCHANGED <<field_vars, doc_vars, name_vars, config>>

Positions == 1..(MaxGroupLen + 1)

Next ==
    \/ GenerateAll
    \/ Submit
    \/ \E i \in Positions : FetchOk(i)
    \/ \E i \in Positions : FetchEmpty(i)
    \/ \E i \in Positions : FetchHttpError(i)
    \/ \E i \in Positions : FetchNetworkError(i)
    \/ \E i \in Positions : FetchDecodeError(i)
    \/ \E i \in Positions : Collect(i)
    \/ ReturnBatch
    \/ SkipGroup
    \/ WriteGroup
    \/ RaiseInGroup
    \/ ExitNormal
    \/ ExitRaised

Spec == Init /\ [][Next]_vars

(***************************************************************************)
(* Start-up: main() constructs the generator from the configuration file   *)
(* and then runs it. A setting is "" when its key is missing or empty; the  *)
(* output directory is "absent" when output.directory is not in the file.   *)
(***************************************************************************)
Configs ==
    [hostname : {"", "set"}, username : {"", "set"}, password : {"", "set"},
     wapi_version : {"", "set"}, directory : {"absent", "", "out"}]

InitConfig ==
    /\ config \in Configs
    /\ pc = "main"
    /\ cfg_groups = <<[name |-> "dns", objects |-> <<O_record_a>>],
                      [name |-> "dhcp", objects |-> <<O_c>>]>>
    /\ opt_group = "" /\ opt_objects = <<>>
    /\ worklist = <<>>
    /\ cur = NoBatch
    /\ futures = <<>>
    /\ results = <<>>
    /\ failed_objects = EmptyDict
    /\ all_processed = <<>>
    /\ docs = EmptyDict
    /\ group_filepaths = <<>>
    /\ raised = ""
    /\ exit_code = "running"
    /\ FieldIdle
    /\ DocIdle
    /\ NameIdle

\* `if not all([self.hostname, self.username, self.password, self.wapi_version])`
connection_complete(c) ==
    c.hostname # "" /\ c.username # "" /\ c.password # "" /\ c.wapi_version # ""

\* output_config.get("directory", "output")
output_dir(c) == IF c.directory = "absent" THEN "output" ELSE c.directory

\* OpenAPIGenerator(config_file=args.config): ValueError, or the generator
Construct ==
    /\ pc = "main"
    /\ IF connection_complete(config) /\ output_dir(config) # ""
       THEN pc' = "start" /\ raised' = raised
       ELSE pc' = "raised" /\ raised' = "ValueError"
    /\ UNCHANGED <<cfg_groups, opt_group, opt_objects, worklist, cur, futures, results,
                   failed_objects, all_processed, docs, group_filepaths, exit_code>>
    /\ UNCHANGED <<field_vars, doc_vars, name_vars, config>>

NextConfig == Construct \/ Next

SpecConfig == InitConfig /\ [][NextConfig]_vars

(***************************************************************************)
(* process_field on its own: one raw field in, one processed field out.    *)
(***************************************************************************)
SupportsChars == {"r", "w", "d", "s"}

SupportsStrings == UNION {[1..n -> SupportsChars] : n \in 0..MaxSupportsLen}

\* vendor type tokens: those of the mapping table and two it does not have
VendorTypes ==
    {"string", "uint", "int", "integer", "bool", "timestamp", "enum", "extattr",
     "struct", "awsrte53recordinfo"}

\* raw fields of every vendor type, plain and array, with and without enum values
TypedFields ==
    {[RawField(<<"x">>, s, t) EXCEPT !.is_array = a, !.enum_values = e] :
        s \in {<<"r">>, RW}, t \in VendorTypes, a \in BOOLEAN,
        e \in {<<>>, <<"A", "B">>}}

InitField ==
    /\ fpc = "raw"
    /\ \/ \E n \in {<<>>, <<"x">>}, s \in SupportsStrings : fin = RawField(n, s, "string")
       \/ fin \in TypedFields
    /\ fout = None
    /\ fprop = None
    /\ RunIdle
    /\ DocIdle
    /\ NameIdle

ProcessField ==
    /\ fpc = "raw"
    /\ fout' = process_field(fin)
    /\ fpc' = "processed"
    /\ UNCHANGED <<fin, fprop>>
    /\ UNCHANGED <<run_vars, doc_vars, name_vars>>

\* property_def = self.convert_field_type_to_openapi(field_details)
ConvertField ==
    /\ fpc = "processed"
    /\ fout.kind = "field"
    /\ fprop' = [of |-> fout, def |-> convert_field_type_to_openapi(fout)]
    /\ fpc' = "converted"
    /\ UNCHANGED <<fin, fout>>
    /\ UNCHANGED <<run_vars, doc_vars, name_vars>>

\* the conversion of the items of a plain array: the nested expansion passes
\* no parent_property, the primary emission passes "is_array"
ConvertItem ==
    /\ fpc = "processed"
    /\ fout.kind = "field"
    /\ fout.is_array
    /\ fout.nested_schema.kind = "None"
    /\ \E parent \in {"", "is_array"} :
         fprop' = [of |-> ItemDetails(fout.original_type, parent),
                   def |-> convert_field_type_to_openapi(
                              ItemDetails(fout.original_type, parent))]
    /\ fpc' = "item"
    /\ UNCHANGED <<fin, fout>>
    /\ UNCHANGED <<run_vars, doc_vars, name_vars>>

\* the property the field gets in a primary schema (of object type b) or in
\* a nested schema
EmitProperty ==
    /\ fpc = "processed"
    /\ fout.kind = "field"
    /\ \/ fprop' = [of |-> fout, def |-> primary_property(O_b, fout.name, fout)]
       \/ fprop' = [of |-> fout, def |-> nested_definition(<<"B">>, fout)]
    /\ fpc' = "emitted"
    /\ UNCHANGED <<fin, fout>>
    /\ UNCHANGED <<run_vars, doc_vars, name_vars>>

NextField ==
    \/ ProcessField
    \/ ConvertField
    \/ ConvertItem
    \/ EmitProperty

SpecField == InitField /\ [][NextField]_vars

(***************************************************************************)
(* to_pascal_case on its own, and the schema_name process_schema derives   *)
(* from an object type.                                                     *)
(***************************************************************************)
NameChars == {"a", "B", "_", ":"}

S_dns_record == <<"d", "n", "s", "_", "r", "e", "c", "o", "r", "d">>
S_a_aaaa == <<"a", ":", "a", "a", "a", "a">>

NameInputs ==
    UNION {[1..n -> NameChars] : n \in 0..MaxNameLen} \cup {S_dns_record, S_a_aaaa}

InitName ==
    /\ snake \in NameInputs
    /\ pascal = None
    /\ RunIdle
    /\ FieldIdle
    /\ DocIdle

PascalCase ==
    /\ pascal = None
    /\ pascal' = [name |-> to_pascal_case(snake),
                  schema_name |->
                      process_schema(RawSchema(snake, <<F_e>>, Absent), snake)
                          .val.schema_name]
    /\ UNCHANGED snake
    /\ UNCHANGED <<run_vars, field_vars, doc_vars>>

NextName == PascalCase

SpecName == InitName /\ [][NextName]_vars

(***************************************************************************)
(* One group document on its own: raw schemas of distinct object types are *)
(* normalised by process_schema, generate_group_api builds the document,   *)
(* and process_nested_schema_fields is then called once more with the      *)
(* emitter's final state.                                                  *)
(***************************************************************************)
DocTypes == {O_a, O_ab, O_b}

\* the field lists the server answers with for a type: b also has a list whose
\* struct refers back and in which the name c occurs more than once
FieldListsOf(type) ==
    FieldLists \cup (IF type = O_b
                     THEN {<<F_b_back, F_c_search, F_c_search, F_c_uint>>}
                     ELSE {})

RawSchemas(type) == {RawSchema(type, fl, r) : fl \in FieldListsOf(type), r \in Restrictions}

DocInputs ==
    UNION {{q \in [1..n -> UNION {RawSchemas(t) : t \in DocTypes}] :
              \A i, j \in 1..n : i # j => q[i].type # q[j].type} : n \in 1..MaxDocLen}

\* the bodies handed to the repeated expansion
AgainBodies == {NestedDict(<<F_e>>), NestedDict(<<F_c_uint, F_d_inner>>), MalformedSchema}

InitDoc ==
    /\ dpc = "raw"
    /\ din \in DocInputs
    /\ dnorm = <<>>
    /\ dout = None
    /\ dagain = None
    /\ RunIdle
    /\ FieldIdle
    /\ NameIdle

\* process_object without the fetch: the schemas process_schema returned
normalized(raw) ==
    MapSeq(LAMBDA r : r.val,
           SelectSeq([i \in DOMAIN raw |-> process_schema(raw[i], raw[i].type)],
                     LAMBDA r : r.exc = "" /\ r.val.kind = "schema"))

Normalize ==
    /\ dpc = "raw"
    /\ dnorm' = normalized(din)
    /\ dpc' = "normalized"
    /\ UNCHANGED <<din, dout, dagain>>
    /\ UNCHANGED <<run_vars, field_vars, name_vars>>

EmitDocument ==
    /\ dpc = "normalized"
    /\ dnorm # <<>>
    /\ dout' = generate_group_api("other", dnorm)
    /\ dpc' = "emitted"
    /\ UNCHANGED <<din, dnorm, dagain>>
    /\ UNCHANGED <<run_vars, field_vars, name_vars>>

\* the emitter's state as generate_schemas_for_objects left it
emitter_after(doc) ==
    [sd |-> doc.schemas, created |-> doc.created, log |-> doc.log, exc |-> ""]

ExpandAgain ==
    /\ dpc = "emitted"
    /\ dout.exc = ""
    /\ \E name \in dout.val.created, body \in AgainBodies :
         dagain' = process_nested_schema_fields(
                       [name |-> name, schema |-> body, field_name |-> <<"x">>],
                       emitter_after(dout.val))
    /\ dpc' = "again"
    /\ UNCHANGED <<din, dnorm, dout>>
    /\ UNCHANGED <<run_vars, field_vars, name_vars>>

\* what self.created_schemas may hold when the same list is generated again:
\* the names of this document, of this and another document, of another one
PriorSets(created) == {created, created \cup {<<"A", "B">>}, {<<"Z">>}}

\* generate_schemas_for_objects once more on the same generator and list
Regenerate ==
    /\ dpc = "emitted"
    /\ dout.exc = ""
    /\ \E prior \in PriorSets(dout.val.created) :
         dagain' = generate_schemas_again(dnorm, prior)
    /\ dpc' = "regenerated"
    /\ UNCHANGED <<din, dnorm, dout>>
    /\ UNCHANGED <<run_vars, field_vars, name_vars>>

\* the raw fields of the first schema of the document, expanded as the body
\* of a nested child schema of a fresh document
EmitAsChild ==
    /\ dpc = "emitted"
    /\ dout.exc = ""
    /\ dagain' = process_nested_schema_fields(
                     [name |-> <<"Child">>, schema |-> NestedDict(din[1].fields),
                      field_name |-> <<"x">>],
                     emitter_start)
    /\ dpc' = "child"
    /\ UNCHANGED <<din, dnorm, dout>>
    /\ UNCHANGED <<run_vars, field_vars, name_vars>>

NextDoc ==
    \/ Normalize
    \/ EmitDocument
    \/ ExpandAgain
    \/ Regenerate
    \/ EmitAsChild

SpecDoc == InitDoc /\ [][NextDoc]_vars

(***************************************************************************)
(* Properties.                                                             *)
(***************************************************************************)
has_nameless_field(raw) == \E i \in DOMAIN raw.fields : raw.fields[i].name = <<>>
named_fields(raw) ==
    {raw.fields[i].name : i \in {k \in DOMAIN raw.fields : raw.fields[k].name # <<>>}}

\* C1: a raw field without a name is dropped, and process_schema still
\* returns the schema of the object type, built from the named fields only,
\* without raising.
C1_NamelessFieldDropped ==
    \A i \in DOMAIN futures :
        (futures[i].outcome = "ok" /\ has_nameless_field(WapiSchema(cur.objects[i])))
        => /\ futures[i].exc = ""
           /\ futures[i].val.kind = "schema"
           /\ DOMAIN futures[i].val.fields = named_fields(WapiSchema(cur.objects[i]))

FailedFetch(f) == f.outcome \in {"http", "network", "decode"}
Succeeded(f) == f.outcome = "ok" /\ f.exc = "" /\ f.val.kind = "schema"

Classification(outcome) ==
    IF outcome = "http" THEN StatusCodes
    ELSE IF outcome = "network" THEN {"Network Error"}
    ELSE {"Network Error", "Data Processing Error"}

BatchDocumentWritten == pc \in {"next", "exit"} /\ cur.name \in DOMAIN docs

SchemaKinds == {"primary", "List", "Create", "Get", "Update"}

InDocument(obj, doc) ==
    \/ collection_path(obj) \in DOMAIN doc.paths
    \/ item_path(obj) \in DOMAIN doc.paths
    \/ \E k \in DOMAIN doc.log : doc.log[k].kind \in SchemaKinds /\ doc.log[k].of = obj

\* C2: an object type whose fetch failed (non-200 status, network error,
\* undecodable payload) yields no result, no schema and no path in the
\* document of its batch; failed_objects has its entry with the
\* classification (the status code for a non-200 answer), a message and the
\* URL; and the object types of the batch that succeeded are in the result
\* and in the document.
C2_FailedFetchSkippedAndRecorded ==
    \A i \in DOMAIN futures :
        FailedFetch(futures[i])
        => /\ \A k \in DOMAIN results : results[k].pos # i
           /\ cur.objects[i] \in DOMAIN failed_objects
           /\ failed_objects[cur.objects[i]].status_code
                 \in Classification(futures[i].outcome)
           /\ failed_objects[cur.objects[i]].message # ""
           /\ failed_objects[cur.objects[i]].url = cur.objects[i]
           /\ BatchDocumentWritten => ~ InDocument(cur.objects[i], docs[cur.name])
           /\ \A j \in DOMAIN futures :
                 (Succeeded(futures[j]) /\ futures[j].st = "collected")
                 => /\ \E k \in DOMAIN results : results[k].pos = j
                    /\ BatchDocumentWritten
                         => collection_path(cur.objects[j]) \in DOMAIN docs[cur.name].paths

C2_Witness ==
    /\ BatchDocumentWritten
    /\ \E i, j \in DOMAIN futures :
         /\ futures[i].outcome = "http"
         /\ failed_objects[cur.objects[i]].status_code = "404"
         /\ Succeeded(futures[j])
         /\ i < j

\* C3: whatever the order in which the futures complete,
\* process_objects_in_parallel returns exactly the schemas of the positions
\* that succeeded, in submission order, each once.
C3_ResultsInSubmissionOrder ==
    pc = "generate"
    => cur.processed = MapSeq(LAMBDA f : f.val, SelectSeq(futures, Succeeded))

C3_Witness ==
    /\ pc = "generate"
    /\ Len(results) >= 2
    /\ results[1].pos > results[2].pos
    /\ cur.processed[1].object_type = cur.objects[1]

has_malformed_nested(raw) ==
    \E i \in DOMAIN raw.fields : raw.fields[i].schema.kind = "malformed"

\* C4: a schema-processing failure of one object type (here a malformed
\* nested schema) is recorded in failed_objects for that object type, no
\* exception leaves generate_all, and every batch is run.
C4_ProcessingFailureIsPerObject ==
    /\ raised = ""
    /\ pc = "exit" => worklist = <<>>
    /\ \A i \in DOMAIN futures :
         (futures[i].st = "collected" /\ futures[i].outcome = "ok"
            /\ has_malformed_nested(WapiSchema(cur.objects[i])))
         => cur.objects[i] \in DOMAIN failed_objects

\* C5: in one document no key of components.schemas is written by two
\* generated schemas, and no generated schema is skipped in favour of one
\* already stored under its key.
C5_SchemaNamesUnique ==
    \A g \in DOMAIN docs :
        \A i, j \in DOMAIN docs[g].log :
            docs[g].log[i].key = docs[g].log[j].key => i = j

\* C6: for every schema of the document the List and Get response schemas
\* are emitted, the Create response schema iff supports_create and the
\* Update response schema iff supports_modify.
C6_ResponseSchemasFollowCapabilities ==
    (dpc = "emitted" /\ dout.exc = "")
    => \A i \in DOMAIN dnorm :
          /\ ResponseName("List", dnorm[i].schema_name) \in DOMAIN dout.val.schemas
          /\ ResponseName("Get", dnorm[i].schema_name) \in DOMAIN dout.val.schemas
          /\ ResponseName("Create", dnorm[i].schema_name) \in DOMAIN dout.val.schemas
                <=> dnorm[i].supports_create
          /\ ResponseName("Update", dnorm[i].schema_name) \in DOMAIN dout.val.schemas
                <=> dnorm[i].supports_modify

Methods(cond_post, cond_put, cond_delete) ==
    [collection |-> {"get"} \cup (IF cond_post THEN {"post"} ELSE {}),
     item |-> {"get"} \cup (IF cond_put THEN {"put"} ELSE {})
                      \cup (IF cond_delete THEN {"delete"} ELSE {})]

\* C7: for every schema of a document the collection path has GET, and POST
\* iff supports_create; the item path has GET, PUT iff supports_modify and
\* DELETE iff supports_delete; there is no other method and no other path.
C7_MethodsFollowCapabilities ==
    (dpc = "emitted" /\ dout.exc = "")
    => /\ DOMAIN dout.val.paths =
             UNION {{collection_path(dnorm[i].object_type),
                     item_path(dnorm[i].object_type)} : i \in DOMAIN dnorm}
       /\ \A i \in DOMAIN dnorm :
             LET m == Methods(dnorm[i].supports_create, dnorm[i].supports_modify,
                              dnorm[i].supports_delete)
             IN  /\ DOMAIN dout.val.paths[collection_path(dnorm[i].object_type)]
                       = m.collection
                 /\ DOMAIN dout.val.paths[item_path(dnorm[i].object_type)] = m.item

C7_Witness ==
    /\ dpc = "emitted"
    /\ dout.exc = ""
    /\ \E i, j \in DOMAIN dnorm :
         /\ ~ dnorm[i].supports_create /\ ~ dnorm[i].supports_modify
         /\ dnorm[i].supports_delete
         /\ dnorm[j].supports_create /\ dnorm[j].supports_modify
         /\ ~ dnorm[j].supports_delete

\* C8: a field is read-only iff its operations string has 'r' and no 'w',
\* write-only iff it has 'w' and no 'r', delete-only iff it has 'd' and
\* neither 'r' nor 'w'; at most one of the three flags is set.
C8_AccessClassification ==
    (fpc = "processed" /\ fout.kind = "field")
    => LET has(c) == \E k \in DOMAIN fin.supports : fin.supports[k] = c
       IN  /\ fout.readonly <=> (has("r") /\ ~ has("w"))
           /\ fout.writeonly <=> (has("w") /\ ~ has("r"))
           /\ fout.deleteonly <=> (has("d") /\ ~ has("r") /\ ~ has("w"))
           /\ ~ (fout.readonly /\ fout.writeonly)
           /\ ~ (fout.readonly /\ fout.deleteonly)
           /\ ~ (fout.writeonly /\ fout.deleteonly)

C8_Witness ==
    /\ fpc = "processed"
    /\ fout.kind = "field"
    /\ fin.supports = <<"d", "r">>
    /\ fout.readonly
    /\ ~ fout.deleteonly

\* C9: a second nested expansion for a child schema name the document has
\* already expanded leaves the schemas map and the de-duplication set as
\* they were, whatever body is passed.
C9_SecondExpansionChangesNothing ==
    dpc = "again"
    => /\ dagain.exc = ""
       /\ dagain.sd = dout.val.schemas
       /\ dagain.created = dout.val.created

C9_Witness ==
    /\ dpc = "again"
    /\ dagain.log[Len(dagain.log)].skipped
    /\ dagain.log[Len(dagain.log)].body = MalformedSchema
    /\ dagain.sd = dout.val.schemas

\* C10: the run exits with status 0 exactly when at least one group document
\* was produced.
C10_ExitZeroIffDocumentProduced ==
    pc = "exit" => (exit_code = "0" <=> DOMAIN docs # {})

\* C11: every write to failed_objects is made by the coordinating thread or
\* while holding the lock; no worker thread writes it unguarded.
C11_FailureWritesGuarded ==
    \A obj \in DOMAIN failed_objects :
        failed_objects[obj].writer = "coordinator" \/ failed_objects[obj].lock_held

\* the restriction list a raw schema states, whatever its form
StatedRestrictions(raw) ==
    IF raw.restrictions.form = "absent" THEN {}
    ELSE {raw.restrictions.list[k] : k \in DOMAIN raw.restrictions.list}

\* C12: supports_create is false iff the restriction list (a bare list, the
\* `list` key of an object, empty when absent) contains "create", and
\* supports_delete is false iff it contains "delete".
C12_RestrictionsGateCreateAndDelete ==
    dpc # "raw"
    => /\ Len(dnorm) = Len(din)
       /\ \A i \in DOMAIN dnorm :
             /\ dnorm[i].object_type = din[i].type
             /\ ~ dnorm[i].supports_create <=> "create" \in StatedRestrictions(din[i])
             /\ ~ dnorm[i].supports_delete <=> "delete" \in StatedRestrictions(din[i])

C12_Witness ==
    /\ dpc = "normalized"
    /\ \E i, j \in DOMAIN dnorm :
         /\ din[i].restrictions.form = "dict"
         /\ ~ dnorm[i].supports_delete /\ dnorm[i].supports_create
         /\ din[j].restrictions.form = "list"
         /\ ~ dnorm[j].supports_create /\ dnorm[j].supports_delete

\* the raw fields process_schema retains: named, the last of each name
Retained(raw) ==
    {i \in DOMAIN raw.fields :
        /\ raw.fields[i].name # <<>>
        /\ \A k \in DOMAIN raw.fields :
              raw.fields[k].name = raw.fields[i].name => k <= i}

Writable(raw) ==
    \E i \in Retained(raw) :
        \E k \in DOMAIN raw.fields[i].supports : raw.fields[i].supports[k] = "w"

C14_SameListSameSchemas ==
    dpc = "regenerated"
    => /\ dagain.exc = ""
       /\ dagain.sd = dout.val.schemas
       /\ dagain.created = dout.val.created

C14_Witness ==
    /\ dpc = "regenerated"
    /\ dout.val.created # {}
    /\ \E n \in dout.val.created : n \in DOMAIN dagain.sd
    /\ dagain.sd = dout.val.schemas

Lacking(c) ==
    \/ c.hostname = "" \/ c.username = "" \/ c.password = "" \/ c.wapi_version = ""
    \/ c.directory \in {"absent", ""}

\* C15: with a configuration that lacks hostname, username, password, WAPI
\* version or output directory the generator is not constructed, no fetch
\* is made and the process exits non-zero.
C15_IncompleteConfigIsFatal ==
    Lacking(config)
    => /\ pc \in {"main", "raised", "exit"}
       /\ futures = <<>>
       /\ exit_code # "0"

\* the table of the specification: kind -> OpenAPI type
TableKinds ==
    {"string", "uint", "int", "integer", "bool", "timestamp", "enum", "extattr"}

TableType(kind) ==
    IF kind \in {"string", "enum"} THEN "string"
    ELSE IF kind \in {"uint", "int", "integer", "timestamp"} THEN "integer"
    ELSE IF kind = "bool" THEN "boolean"
    ELSE "object"

FormatAsStated ==
    /\ "format" \in DOMAIN fprop.def <=> fprop.of.type \in {"timestamp", "uint", "int"}
    /\ "format" \in DOMAIN fprop.def => fprop.def["format"] = "int64"

\* C16 as stated: the conversion maps every kind through the table, every
\* kind the table does not have to object, and adds the int64 format exactly
\* for timestamp, uint and int.
C16_TypeTable ==
    fpc \in {"converted", "item"}
    => /\ fprop.def["type"] = TableType(fprop.of.type)
       /\ FormatAsStated

\* C16, amended: as stated, except that a kind the table does not have
\* keeps the initial type string, and is not made object, when the dict
\* given to the conversion is marked parent_property = "is_array".
C16_TypeTableUnlessArrayItem ==
    fpc \in {"converted", "item"}
    => /\ fprop.def["type"] =
             IF fprop.of.parent_property = "is_array" /\ fprop.of.type \notin TableKinds
             THEN "string"
             ELSE TableType(fprop.of.type)
       /\ FormatAsStated

C16_Witness ==
    /\ fpc = "item"
    /\ fprop.of.parent_property = "is_array"
    /\ fprop.of.type = "struct"
    /\ fprop.def["type"] = "string"

Separators == {":", "_"}

\* the positions of s that hold no separator, in order
Letters(s) == SelectSeq([i \in DOMAIN s |-> i], LAMBDA i : s[i] \notin Separators)

UpperOf(c) ==
    IF c = "a" THEN "A" ELSE IF c = "d" THEN "D" ELSE IF c = "r" THEN "R" ELSE c
LowerOf(c) == IF c = "B" THEN "b" ELSE c

\* s without its separators, each character upper-cased when it starts a
\* segment and lower-cased otherwise
Segmented(s) ==
    [k \in DOMAIN Letters(s) |->
        IF Letters(s)[k] = 1 \/ s[Letters(s)[k] - 1] \in Separators
        THEN UpperOf(s[Letters(s)[k]])
        ELSE LowerOf(s[Letters(s)[k]])]

S_RecordA == <<"R", "e", "c", "o", "r", "d", "A">>

\* C19: the schema of record:a (name: string, rw, required; ipv4addr:
\* string, rw; no restrictions) in group dns gives one document with schema
\* RecordA, required [name], both properties of type string, GET and POST on
\* /record:a, and GET, PUT and DELETE on /record:a/{reference}.
C19_RecordAEndToEnd ==
    docs # EmptyDict
    => /\ DOMAIN docs = {"dns"}
       /\ S_RecordA \in DOMAIN docs["dns"].schemas
       /\ docs["dns"].schemas[S_RecordA]["required"] = <<S_name>>
       /\ docs["dns"].schemas[S_RecordA]["properties"][S_name]["type"] = "string"
       /\ docs["dns"].schemas[S_RecordA]["properties"][S_ipv4addr]["type"] = "string"
       /\ DOMAIN docs["dns"].schemas[S_RecordA]["properties"]
             = {S_ref, S_name, S_ipv4addr}
       /\ DOMAIN docs["dns"].paths =
             {collection_path(O_record_a), item_path(O_record_a)}
       /\ collection_path(O_record_a) = <<"/">> \o O_record_a
       /\ DOMAIN docs["dns"].paths[collection_path(O_record_a)] = {"get", "post"}
       /\ DOMAIN docs["dns"].paths[item_path(O_record_a)] = {"get", "put", "delete"}

C19_Witness ==
    /\ pc = "exit"
    /\ exit_code = "0"
    /\ "dns" \in DOMAIN docs
    /\ S_RecordA \in DOMAIN docs["dns"].schemas

\* a properties map without the built-in _ref
WithoutRef(properties) == [n \in DOMAIN properties \ {S_ref} |-> properties[n]]

\* C20: the properties map a list of raw fields gets as a nested child
\* schema equals the one it gets as a primary schema, apart from _ref.
C20_NestedEqualsPrimary ==
    (dpc = "child" /\ dagain.exc = ""
       /\ S_ref \in DOMAIN dout.val.schemas[dnorm[1].schema_name]["properties"])
    => dagain.sd[<<"Child">>]["properties"]
          = WithoutRef(dout.val.schemas[dnorm[1].schema_name]["properties"])

\* entry j of the log is the expansion of a field inside the body of entry i
ExpandedInside(log, i, j) ==
    /\ log[i].kind = "nested" /\ log[j].kind = "nested"
    /\ log[i].body.kind = "dict"
    /\ \E k \in DOMAIN log[i].body.fields :
          /\ log[i].body.fields[k].name = log[j].of
          /\ log[i].body.fields[k].schema = log[j].body

WithProperties(sd) == {k \in DOMAIN sd : "properties" \in DOMAIN sd[k]}
PropertiesOf(sd, k) == sd[k]["properties"]

\* the last raw field of a name in a nested body, as the emitter stores it
LastNamed(fields, n) ==
    fields[CHOOSE i \in DOMAIN fields :
              /\ fields[i].name = n
              /\ \A k \in DOMAIN fields : fields[k].name = n => k <= i]

IsRef(p) == "$ref" \in DOMAIN p /\ p["$ref"].ns = "schemas"

\* the schema object under a key is a primary one / a nested child
IsPrimary(sd, k) == S_ref \in DOMAIN PropertiesOf(sd, k)

\* the property of the raw field of a nested body is as C22 states it
NestedFieldAsStated(sd, p, raw) ==
    IF raw.is_array
    THEN /\ p["type"] = "array"
         /\ DOMAIN p["items"] = {"$ref"}
         /\ IsRef(p["items"])
         /\ p["items"]["$ref"].name \in DOMAIN sd
    ELSE /\ IsRef(p)
         /\ "type" \notin DOMAIN p
         /\ p["$ref"].name \in DOMAIN sd

\* the property of the field of a primary schema is as C22 states it
PrimaryFieldAsStated(p, fd) ==
    IF fd.is_array
    THEN p["type"] = "array" /\ p["items"] = SchemaRef(fd.nested_schema_name)
    ELSE p = SchemaRef(fd.nested_schema_name)

\* C22: in every emitted schema no property has both $ref and type; a
\* non-array field with a nested schema is a reference to its child schema
\* without a type, an array field with a nested schema has type array and
\* items that are the reference.
C22_NoTypeBesideRef ==
    (dpc = "emitted" /\ dout.exc = "")
    => /\ \A k \in WithProperties(dout.val.schemas) :
             \A n \in DOMAIN PropertiesOf(dout.val.schemas, k) :
                 ~ ("$ref" \in DOMAIN PropertiesOf(dout.val.schemas, k)[n]
                      /\ "type" \in DOMAIN PropertiesOf(dout.val.schemas, k)[n])
       /\ \A i \in DOMAIN dout.val.log :
             (/\ dout.val.log[i].kind = "nested"
              /\ ~ dout.val.log[i].skipped
              /\ ~ IsPrimary(dout.val.schemas, dout.val.log[i].key))
             => \A f \in DOMAIN dout.val.log[i].body.fields :
                   (/\ dout.val.log[i].body.fields[f].name # <<>>
                    /\ LastNamed(dout.val.log[i].body.fields,
                                 dout.val.log[i].body.fields[f].name).schema.kind = "dict")
                   => NestedFieldAsStated(
                          dout.val.schemas,
                          PropertiesOf(dout.val.schemas, dout.val.log[i].key)
                              [dout.val.log[i].body.fields[f].name],
                          LastNamed(dout.val.log[i].body.fields,
                                    dout.val.log[i].body.fields[f].name))
       /\ \A i \in DOMAIN dnorm :
             IsPrimary(dout.val.schemas, dnorm[i].schema_name)
             => \A n \in DOMAIN dnorm[i].fields :
                   dnorm[i].fields[n].nested_schema_name # <<>>
                   => PrimaryFieldAsStated(
                          PropertiesOf(dout.val.schemas, dnorm[i].schema_name)[n],
                          dnorm[i].fields[n])

C22_Witness ==
    /\ dpc = "emitted"
    /\ dout.exc = ""
    /\ \E k \in WithProperties(dout.val.schemas) :
          \E n \in DOMAIN PropertiesOf(dout.val.schemas, k) :
             /\ ~ IsPrimary(dout.val.schemas, k)
             /\ IsRef(PropertiesOf(dout.val.schemas, k)[n])
             /\ "enum" \in DOMAIN PropertiesOf(dout.val.schemas, k)[n]
    /\ \E k \in WithProperties(dout.val.schemas) :
          \E m \in DOMAIN PropertiesOf(dout.val.schemas, k) :
             /\ ~ IsPrimary(dout.val.schemas, k)
             /\ "items" \in DOMAIN PropertiesOf(dout.val.schemas, k)[m]
             /\ IsRef(PropertiesOf(dout.val.schemas, k)[m]["items"])
    /\ \E k \in WithProperties(dout.val.schemas) :
          \E n \in DOMAIN PropertiesOf(dout.val.schemas, k) :
             /\ IsPrimary(dout.val.schemas, k)
             /\ DOMAIN PropertiesOf(dout.val.schemas, k)[n] = {"$ref"}

\* C23: the conversion of the item descriptor of a plain array whose element
\* type has no mapping-table entry assigns no type, only the single-element
\* enum of the vendor type.
C23_ItemTypeNotForced ==
    (fpc = "item" /\ fprop.of.type \notin DOMAIN type_mapping)
    => /\ "type" \notin DOMAIN fprop.def
       /\ fprop.def["enum"] = <<fprop.of.original_type>>

\* C24: the child schema name the normalizer records for a field with a
\* nested schema is the capitalization of "{schema_name}_{field_name}",
\* schema_name being the display name of the owning schema, and the
\* property of the field in the primary schema refers to that name.
C24_ChildNameFromDisplayName ==
    (dpc = "emitted" /\ dout.exc = "")
    => \A i \in DOMAIN dnorm :
          \A n \in DOMAIN dnorm[i].fields :
             dnorm[i].fields[n].nested_schema.kind # "None"
             => /\ dnorm[i].fields[n].nested_schema_name
                      = to_pascal_case(dnorm[i].schema_name \o <<"_">> \o n)
                /\ IsPrimary(dout.val.schemas, dnorm[i].schema_name)
                   => PrimaryFieldAsStated(
                          PropertiesOf(dout.val.schemas, dnorm[i].schema_name)[n],
                          [is_array |-> dnorm[i].fields[n].is_array,
                           nested_schema_name |->
                               to_pascal_case(dnorm[i].schema_name \o <<"_">> \o n)])

\* C25: within one call of process_objects_in_parallel every submitted list
\* entry is fetched at most once, exactly once when its worker has run, and
\* an entry whose fetch failed is not fetched again.
C25_NoRetry ==
    \A i \in DOMAIN futures :
        /\ futures[i].fetches <= 1
        /\ futures[i].st # "pending" => futures[i].fetches = 1
        /\ FailedFetch(futures[i]) => futures[i].fetches = 1

C25_Witness ==
    /\ pc = "generate"
    /\ \E i, j \in DOMAIN futures :
         /\ FailedFetch(futures[i]) /\ futures[i].outcome = "http"
         /\ futures[i].fetches = 1
         /\ Succeeded(futures[j])
         /\ futures[j].fetches = 1

\* the schema of the object type is in the list the batch returned
InReturned(obj) == \E k \in DOMAIN cur.processed : cur.processed[k].object_type = obj

\* C26: when process_objects_in_parallel has returned, every submitted
\* object type is in exactly one place: its schema is in the returned list,
\* or failed_objects has an entry for it.
C26_EveryObjectAccounted ==
    pc = "generate"
    => \A i \in DOMAIN cur.objects :
          InReturned(cur.objects[i]) <=> cur.objects[i] \notin DOMAIN failed_objects

\* the references of a dict, of the items of an array, of a property
OwnRef(d) == IF "$ref" \in DOMAIN d THEN {d["$ref"]} ELSE {}
ItemsRef(d) == IF "items" \in DOMAIN d THEN OwnRef(d["items"]) ELSE {}
PropertyRefs(p) ==
    OwnRef(p) \cup ItemsRef(p)
      \cup (IF "additionalProperties" \in DOMAIN p THEN OwnRef(p["additionalProperties"])
            ELSE {})

\* the references of one alternative of a oneOf
BranchRefs(b) ==
    OwnRef(b) \cup ItemsRef(b)
      \cup (IF "properties" \in DOMAIN b
            THEN UNION {OwnRef(b["properties"][n]) \cup ItemsRef(b["properties"][n]) :
                          n \in DOMAIN b["properties"]}
            ELSE {})

\* the references of a schema object of components.schemas
SchemaObjectRefs(s) ==
    (IF "properties" \in DOMAIN s
     THEN UNION {PropertyRefs(s["properties"][n]) : n \in DOMAIN s["properties"]}
     ELSE {})
    \cup (IF "oneOf" \in DOMAIN s
          THEN UNION {BranchRefs(s["oneOf"][i]) : i \in DOMAIN s["oneOf"]}
          ELSE {})

\* the references of an operation and of a path item
OperationRefs(op) ==
    UNION {OwnRef(op.parameters[i]) : i \in DOMAIN op.parameters}
      \cup OwnRef(op.requestBody) \cup OwnRef(op.response)
PathRefs(item) == UNION {OperationRefs(item[m]) : m \in DOMAIN item}

DocumentRefs(doc) ==
    UNION {SchemaObjectRefs(doc.schemas[k]) : k \in DOMAIN doc.schemas}
      \cup UNION {PathRefs(doc.paths[q]) : q \in DOMAIN doc.paths}

Resolves(r, doc) ==
    IF r.ns = "schemas" THEN r.name \in DOMAIN doc.schemas
    ELSE r.ns = "parameters" /\ r.name \in doc.parameters

\* C27: every $ref of components.schemas and of paths in a generated
\* document names a key of components.schemas or components.parameters of
\* that document.
C27_ReferencesResolve ==
    (dpc = "emitted" /\ dout.exc = "")
    => \A r \in DocumentRefs(dout.val) : Resolves(r, dout.val)

C27_Witness ==
    /\ dpc = "emitted"
    /\ dout.exc = ""
    /\ \E r \in DocumentRefs(dout.val) : r.ns = "parameters"
    /\ RefStr("schemas", <<"ExtAttrs">>) \in DocumentRefs(dout.val)
    /\ \E i, j \in DOMAIN dnorm :
          /\ dnorm[i].supports_create /\ ~ dnorm[j].supports_create
          /\ RefStr("schemas", ResponseName("Create", dnorm[i].schema_name))
                \in DocumentRefs(dout.val)
          /\ \E n \in DOMAIN dnorm[i].fields :
                /\ dnorm[i].fields[n].nested_schema_name # <<>>
                /\ RefStr("schemas", dnorm[i].fields[n].nested_schema_name)
                      \in DocumentRefs(dout.val)
          /\ RefStr("schemas", <<"A", "b", "D">>) \in DocumentRefs(dout.val)

\* C28: every schema written into the document of a group carries that
\* group's name as its own group value, whether the run was asked for
\* explicit objects, for one group or for all groups.
C28_RoutedToOwnGroup ==
    BatchDocumentWritten
    => \A k \in DOMAIN cur.processed : cur.processed[k].group = cur.name

NoDuplicates(l) == \A i, j \in DOMAIN l : l[i] = l[j] => i = j

\* C29: required_fields and filtering_fields of a normalized schema list no
\* name twice, and every name they list is a retained field whose required
\* (filterable) attribute is true, also when a field name occurs more than
\* once in the raw schema.
C29_DerivedListsAgreeWithFields ==
    dpc \in {"normalized", "emitted"}
    => \A i \in DOMAIN dnorm :
          /\ NoDuplicates(dnorm[i].required_fields)
          /\ NoDuplicates(dnorm[i].filtering_fields)
          /\ \A k \in DOMAIN dnorm[i].required_fields :
                /\ dnorm[i].required_fields[k] \in DOMAIN dnorm[i].fields
                /\ dnorm[i].fields[dnorm[i].required_fields[k]].required
          /\ \A k \in DOMAIN dnorm[i].filtering_fields :
                /\ dnorm[i].filtering_fields[k] \in DOMAIN dnorm[i].fields
                /\ dnorm[i].fields[dnorm[i].filtering_fields[k]].supports_filtering

\* C30: an enum on an emitted property is the field's explicit enum values,
\* or the single vendor type token of a type without mapping-table entry; an
\* array field of a mapped element type without explicit enum values has no
\* enum on the array property.
C30_EnumOnlyFromValuesOrUnmappedType ==
    (fpc = "emitted" /\ "enum" \in DOMAIN fprop.def)
    => \/ fout.enum # <<>> /\ fprop.def["enum"] = fout.enum
       \/ /\ fout.original_type \notin DOMAIN type_mapping
          /\ fprop.def["enum"] = <<fout.original_type>>

====
